---- MODULE Spec2Model ----
(***************************************************************************)
(* Model of the habit-bot Mini App front end:                              *)
(*   - the fetch wrapper request() and the api operations (api.js),        *)
(*   - the App component's state and event handlers (App.jsx),             *)
(*   - the view-model builders buildCalendarGrid and buildMiniBars.        *)
(* Strings that the code takes apart or puts together (month strings, day  *)
(* strings, URLs) are sequences of one-character strings.                  *)
(***************************************************************************)
EXTENDS Integers, Sequences, FiniteSets, TLC

\* ------------------------------------------------------------------------
\* Bounds of the model
\* ------------------------------------------------------------------------
\* longest month length the mini-bar window is examined for
MaxWindowDays == 31

\* ------------------------------------------------------------------------
\* Text helpers (JavaScript String methods)
\* ------------------------------------------------------------------------
\* the null value; every other object is a record without the field null
Null == [null |-> TRUE]
\* the value of parseInt when no digits lead the string
NaN == -1

DigitChars == <<"0", "1", "2", "3", "4", "5", "6", "7", "8", "9">>

IsDigit(c) == \E i \in 1..10 : DigitChars[i] = c

DigitValue(c) == (CHOOSE i \in 1..10 : DigitChars[i] = c) - 1

\* String(n) for a non-negative integer n
RECURSIVE NumToStr(_)
NumToStr(n) ==
  IF n < 10 THEN <<DigitChars[n + 1]>>
  ELSE NumToStr(n \div 10) \o <<DigitChars[(n % 10) + 1]>>

\* s.padStart(len, ch)
RECURSIVE PadStart(_, _, _)
PadStart(s, len, ch) ==
  IF Len(s) >= len THEN s ELSE PadStart(<<ch>> \o s, len, ch)

\* parseInt(s, 10) on a string without sign or blanks: the value of the
\* leading digits, NaN when there are none
RECURSIVE ParseDigits(_, _)
ParseDigits(s, acc) ==
  IF s = <<>> \/ ~IsDigit(Head(s)) THEN acc
  ELSE ParseDigits(Tail(s), acc * 10 + DigitValue(Head(s)))

ParseInt(s) ==
  IF s = <<>> \/ ~IsDigit(Head(s)) THEN NaN ELSE ParseDigits(s, 0)

\* s.split(sep) for a one-character separator
RECURSIVE SplitFrom(_, _, _)
SplitFrom(s, sep, cur) ==
  IF s = <<>> THEN <<cur>>
  ELSE IF Head(s) = sep THEN <<cur>> \o SplitFrom(Tail(s), sep, <<>>)
  ELSE SplitFrom(Tail(s), sep, Append(cur, Head(s)))

Split(s, sep) == SplitFrom(s, sep, <<>>)

\* ------------------------------------------------------------------------
\* JavaScript Date (local time): new Date(year, monthIndex, day)
\* ------------------------------------------------------------------------
\* MakeFullYear of the Date constructor: years 0..99 mean 1900..1999
MakeFullYear(y) == IF y >= 0 /\ y <= 99 THEN 1900 + y ELSE y

\* day number (days since 1970-01-01) of the civil date y-m-d, m in 1..12
DaysFromCivil(y, m, d) ==
  LET yy == IF m <= 2 THEN y - 1 ELSE y
      era == yy \div 400
      yoe == yy - era * 400
      mp == IF m > 2 THEN m - 3 ELSE m + 9
      doy == (153 * mp + 2) \div 5 + d - 1
      doe == yoe * 365 + yoe \div 4 - yoe \div 100 + doy
  IN  era * 146097 + doe - 719468

\* day of the month of day number z
DateFromDays(z) ==
  LET zz == z + 719468
      era == zz \div 146097
      doe == zz - era * 146097
      yoe == (doe - doe \div 1460 + doe \div 36524 - doe \div 146096) \div 365
      doy == doe - (365 * yoe + yoe \div 4 - yoe \div 100)
      mp == (5 * doy + 2) \div 153
  IN  doy - (153 * mp + 2) \div 5 + 1

\* new Date(y, mIdx, d) as a day number; mIdx may be 12, d may be 0
NewDate(y, mIdx, d) ==
  LET fy == MakeFullYear(y)
      ym == fy + mIdx \div 12
      mn == mIdx % 12
  IN  DaysFromCivil(ym, mn + 1, 1) + d - 1

\* Date.prototype.getDay(): 0 = Sunday; 1970-01-01 was a Thursday
GetDay(t) == (t + 4) % 7

\* Date.prototype.getDate()
GetDate(t) == DateFromDays(t)

\* ------------------------------------------------------------------------
\* buildCalendarGrid and buildMiniBars (App.jsx)
\* ------------------------------------------------------------------------
\* new Set(data[field] || []); an absent field reads as undefined
AsSet(data, field) == IF field \in DOMAIN data THEN data[field] ELSE {}

\* `${monthStr}-${String(d).padStart(2, "0")}`
DayStr(monthStr, d) == monthStr \o <<"-">> \o PadStart(NumToStr(d), 2, "0")

\* variant: a marked day stays done even when it is also skipped
DayStatus_MarkedWins(dayStr, marked, skipped) ==
  LET s1 == IF dayStr \in skipped THEN "skip" ELSE "none"
  IN  IF dayStr \in marked THEN "done" ELSE s1

\* the status of one day: marked gives done, skipped overrides with skip
DayStatus(dayStr, marked, skipped) ==
  LET s1 == IF dayStr \in marked THEN "done" ELSE "none"
  IN  IF dayStr \in skipped THEN "skip" ELSE s1

\* monthStr.split("-").map((v) => parseInt(v, 10)), destructured as [y, m]
ParseMonth(monthStr) ==
  LET parts == Split(monthStr, "-")
  IN  [y |-> ParseInt(parts[1]),
       m |-> IF Len(parts) >= 2 THEN ParseInt(parts[2]) ELSE NaN]

\* variant: new Date(y, m - 1, 0).getDate(), the length of the month before
DaysInMonth_MonthBefore(y, m) == GetDate(NewDate(y, m - 1, 0))

\* new Date(y, m, 0).getDate()
DaysInMonth(y, m) == GetDate(NewDate(y, m, 0))

\* (new Date(y, m - 1, 1).getDay() + 6) % 7
MondayIndex(y, m) == (GetDay(NewDate(y, m - 1, 1)) + 6) % 7

buildCalendarGrid(monthStr, data) ==
  IF data = Null THEN <<>>
  ELSE
    LET ym == ParseMonth(monthStr)
    IN  IF ym.y = NaN \/ ym.m = NaN THEN <<>>
        ELSE
          LET daysInMonth == DaysInMonth(ym.y, ym.m)
              mondayIndex == MondayIndex(ym.y, ym.m)
              marked == AsSet(data, "marked")
              skipped == AsSet(data, "skipped")
          IN  [i \in 1..mondayIndex |-> [type |-> "empty"]]
              \o [d \in 1..daysInMonth |->
                    [type |-> "day", day |-> d,
                     status |-> DayStatus(DayStr(monthStr, d), marked, skipped)]]

\* variant: the clamp at 0 instead of 1
WindowStart_ClampZero(daysInMonth) ==
  IF daysInMonth - 13 > 0 THEN daysInMonth - 13 ELSE 0

\* Math.max(daysInMonth - 13, 1)
WindowStart(daysInMonth) ==
  IF daysInMonth - 13 > 1 THEN daysInMonth - 13 ELSE 1

\* the loop of buildMiniBars over a month of daysInMonth days
MiniBarsLoop(daysInMonth, monthStr, marked, skipped) ==
  LET start == WindowStart(daysInMonth)
  IN  [k \in 1..(daysInMonth - start + 1) |->
         [day |-> start + k - 1,
          status |-> DayStatus(DayStr(monthStr, start + k - 1), marked, skipped)]]

buildMiniBars(monthStr, data) ==
  IF data = Null THEN <<>>
  ELSE
    LET ym == ParseMonth(monthStr)
    IN  IF ym.y = NaN \/ ym.m = NaN THEN <<>>
        ELSE MiniBarsLoop(DaysInMonth(ym.y, ym.m), monthStr,
                          AsSet(data, "marked"), AsSet(data, "skipped"))

\* ------------------------------------------------------------------------
\* api.js: the identifying token
\* ------------------------------------------------------------------------
\* const API_URL; its text holds no "?"
API_URL == <<"http://127.0.0.1:8000">>

\* no token: null and the empty string, which every use treats alike (falsy)
NoToken == <<>>

\* a field that an options object does not have
Absent == "absent"

\* getTelegramId(): the host-provided user id wins and is written to
\* localStorage; otherwise the stored value is returned
getTelegramId(host, store) ==
  IF host # NoToken THEN [tg |-> host, storage |-> host]
  ELSE [tg |-> store, storage |-> store]

\* setTelegramId(id)
setTelegramId(id) == id

\* clearTelegramId()
clearTelegramId == NoToken

\* ------------------------------------------------------------------------
\* api.js: request()
\* ------------------------------------------------------------------------
\* url.includes(c)
Includes(s, c) == \E i \in 1..Len(s) : s[i] = c

\* the percent-encoding of one character by encodeURIComponent
EncodeChar(c) ==
  CASE c = "&" -> <<"%", "2", "6">>
    [] c = "?" -> <<"%", "3", "F">>
    [] c = "=" -> <<"%", "3", "D">>
    [] c = "%" -> <<"%", "2", "5">>
    [] c = " " -> <<"%", "2", "0">>
    [] OTHER -> <<c>>

RECURSIVE encodeURIComponent(_)
encodeURIComponent(s) ==
  IF s = <<>> THEN <<>> ELSE EncodeChar(Head(s)) \o encodeURIComponent(Tail(s))

\* the headers object: Content-Type, and X-Telegram-Id when a token is known
\* (no api operation passes headers of its own)
BuildHeaders(tg) ==
  IF tg # NoToken
    THEN ("Content-Type" :> "application/json") @@ ("X-Telegram-Id" :> tg)
    ELSE ("Content-Type" :> "application/json")

\* BuildUrl with the token appended as it is, not percent-encoded
BuildUrl_RawToken(path, tg) ==
  LET url == API_URL \o path
      joiner == IF Includes(url, "?") THEN "&" ELSE "?"
  IN  IF tg # NoToken
        THEN url \o <<joiner, "telegram_user_id", "=">> \o tg
        ELSE url

\* the url: API_URL + path, and the telegram_user_id parameter when a token
\* is known, joined with "&" when the url already holds a "?"
BuildUrl(path, tg) ==
  LET url == API_URL \o path
      joiner == IF Includes(url, "?") THEN "&" ELSE "?"
  IN  IF tg # NoToken
        THEN url \o <<joiner, "telegram_user_id", "=">> \o encodeURIComponent(tg)
        ELSE url

\* doFetch(): one fetch(url, {...options, headers, signal}) is sent
doFetch(c) ==
  [c EXCEPT !.sent = Append(@, [url |-> c.url, headers |-> c.headers,
                                    options |-> c.options])]

\* request(path, options) up to its first await: token, headers, url and the
\* first doFetch(); storage is what getTelegramId() leaves in localStorage
RequestStart(path, options, host, store) ==
  LET g == getTelegramId(host, store)
      c0 == [tg |-> g.tg, url |-> BuildUrl(path, g.tg),
             headers |-> BuildHeaders(g.tg), options |-> options,
             sent |-> <<>>, got |-> <<>>]
  IN  [call |-> doFetch(c0), storage |-> g.storage]

\* what one fetch can end in
AbortOutcome == [type |-> "abort"]
NetFailOutcome == [type |-> "neterr"]
Response(status, body) == [type |-> "response", status |-> status, body |-> body]

AbortError == [name |-> "AbortError", message |-> "The operation was aborted."]
NetworkError == [name |-> "TypeError", message |-> "Failed to fetch"]
JsonSyntaxError == [name |-> "SyntaxError", message |-> "Unexpected end of JSON input"]
RequestError(message) == [name |-> "Error", message |-> message]

\* the habits, statistics and calendars the backend serves
Habit1 == [id |-> 1, name |-> "run"]
Habit2 == [id |-> 2, name |-> "read"]
Feb01 == <<"2", "0", "2", "4", "-", "0", "2", "-", "0", "1">>

\* JSON.parse of the response texts the backend serves; any other text is
\* not JSON
JsonTable ==
  ("[]" :> [list |-> <<>>])
  @@ ("[{\"id\":1},{\"id\":2}]" :> [list |-> <<Habit1, Habit2>>])
  @@ ("{\"total\":3}" :> [total |-> 3, completion |-> 50, month_completion |-> 40])
  @@ ("{\"marked\":[\"2024-02-01\"],\"skipped\":[]}" :> [marked |-> {Feb01}, skipped |-> {}])
  @@ ("{\"marked\":[],\"skipped\":[\"2024-02-01\"]}" :> [marked |-> {}, skipped |-> {Feb01}])
  @@ ("{\"telegram_user_id\":42}" :> [telegram_user_id |-> 42])
  @@ ("{\"ok\":true}" :> [ok |-> TRUE])

IsJson(text) == text \in DOMAIN JsonTable
JsonParse(text) == JsonTable[text]

\* res.ok
ResOk(res) == res.status >= 200 /\ res.status <= 299

\* RequestOnResponse with one message for every error status
RequestOnResponse_FixedMessage(res) ==
  IF ~ResOk(res)
    THEN [kind |-> "throw", error |-> RequestError("Request failed")]
  ELSE IF res.status = 204 THEN [kind |-> "return", value |-> Null]
  ELSE IF IsJson(res.body) THEN [kind |-> "return", value |-> JsonParse(res.body)]
  ELSE [kind |-> "throw", error |-> JsonSyntaxError]

\* RequestOnResponse with a 204 parsed like any other success
RequestOnResponse_Parse204(res) ==
  IF ~ResOk(res)
    THEN [kind |-> "throw",
          error |-> RequestError(IF res.body # "" THEN res.body ELSE "Request failed")]
  ELSE IF IsJson(res.body) THEN [kind |-> "return", value |-> JsonParse(res.body)]
  ELSE [kind |-> "throw", error |-> JsonSyntaxError]

\* request() after a response: throw on a status outside 200..299, null on
\* 204, otherwise res.json()
RequestOnResponse(res) ==
  IF ~ResOk(res)
    THEN [kind |-> "throw",
          error |-> RequestError(IF res.body # "" THEN res.body ELSE "Request failed")]
  ELSE IF res.status = 204 THEN [kind |-> "return", value |-> Null]
  ELSE IF IsJson(res.body) THEN [kind |-> "return", value |-> JsonParse(res.body)]
  ELSE [kind |-> "throw", error |-> JsonSyntaxError]

\* RequestAfter with a retry after every AbortError
RequestAfter_RetryAgain(c, outcome) ==
  IF outcome.type = "abort" THEN [kind |-> "retry"]
  ELSE IF outcome.type = "neterr" THEN [kind |-> "throw", error |-> NetworkError]
  ELSE RequestOnResponse(outcome)

\* request() after fetch number Len(c.sent) ended in outcome: retry after a
\* first AbortError, rethrow any other failure, else handle the response
RequestAfter(c, outcome) ==
  IF outcome.type = "abort"
    THEN IF Len(c.sent) = 1 THEN [kind |-> "retry"]
         ELSE [kind |-> "throw", error |-> AbortError]
  ELSE IF outcome.type = "neterr" THEN [kind |-> "throw", error |-> NetworkError]
  ELSE RequestOnResponse(outcome)

\* ------------------------------------------------------------------------
\* api.js: the api operations, each a path and an options object
\* ------------------------------------------------------------------------
NoOptions == [method |-> Absent, body |-> Absent]

ApiLinkResolve(code) ==
  [op |-> "linkResolve", path |-> <<"/link/resolve">>,
   options |-> [method |-> "POST", body |-> "{\"code\":\"" \o code \o "\"}"]]
ApiListHabits ==
  [op |-> "listHabits", path |-> <<"/habits">>, options |-> NoOptions]
ApiListFriendHabits ==
  [op |-> "listFriendHabits", path |-> <<"/friends/habits">>, options |-> NoOptions]
ApiCreateHabit(name) ==
  [op |-> "createHabit", path |-> <<"/habits">>,
   options |-> [method |-> "POST", body |-> "{\"name\":\"" \o name \o "\"}"]]
ApiHabitStats(id) ==
  [op |-> "habitStats", path |-> <<"/habits/">> \o NumToStr(id) \o <<"/stats">>,
   options |-> NoOptions]
ApiHabitCalendar(id, month) ==
  [op |-> "habitCalendar",
   path |-> <<"/habits/">> \o NumToStr(id) \o <<"/calendar", "?", "month", "=">> \o month,
   options |-> NoOptions]
ApiCheckin(id) ==
  [op |-> "checkin", path |-> <<"/habits/">> \o NumToStr(id) \o <<"/checkin">>,
   options |-> [method |-> "POST", body |-> "{\"day\":null}"]]
ApiSkip(id) ==
  [op |-> "skip", path |-> <<"/habits/">> \o NumToStr(id) \o <<"/skip">>,
   options |-> [method |-> "POST", body |-> "{\"day\":null}"]]
ApiDeleteHabit(id) ==
  [op |-> "deleteHabit", path |-> <<"/habits/">> \o NumToStr(id),
   options |-> [method |-> "DELETE", body |-> Absent]]

\* ------------------------------------------------------------------------
\* Bounds and inputs of the App model
\* ------------------------------------------------------------------------
\* handlers that can be in flight at the same time
MaxCalls == 2
\* handlers calling the api that the user starts in one run
MaxClicks == 2

Slots == 1..MaxCalls

\* String(id) of the user id the Telegram host provides, when it provides one
HostToken == <<"4", "2">>
\* tokens found in localStorage: a numeric id, and a text that needs
\* percent-encoding
StoredTokens == {<<"7">>, <<"a", "&", "b">>}
\* what the user types into the user_id field, the code field, the name field
TypedToken == <<"9">>
TypedCode == "123456"
TypedName == "run"
\* the months of the month input
MonthA == <<"2", "0", "2", "4", "-", "0", "2">>
MonthB == <<"2", "0", "2", "4", "-", "0", "3">>
\* horizontal movement of a touch, in pixels
TouchDeltas == {-80, -20, 80}

\* the texts of the successful responses to an api operation
OkTexts(op) ==
  CASE op \in {"listHabits", "listFriendHabits"} -> {"[{\"id\":1},{\"id\":2}]"}
    [] op = "habitStats" -> {"{\"total\":3}"}
    [] op = "habitCalendar" -> {"{\"marked\":[\"2024-02-01\"],\"skipped\":[]}", "{\"marked\":[],\"skipped\":[\"2024-02-01\"]}"}
    [] op = "linkResolve" -> {"{\"telegram_user_id\":42}"}
    [] OTHER -> {"{\"ok\":true}"}

\* every way a fetch of an api operation can end: a JSON response, a
\* response whose text is not JSON, 204, error statuses with and without a
\* text, the 25 s abort, a network failure
AllOutcomes(op) ==
  {Response(200, t) : t \in OkTexts(op)}
  \cup {Response(201, "{\"ok\":true}"), Response(200, ""), Response(204, ""),
        Response(404, "not found"), Response(400, "{\"ok\":true}"),
        Response(500, "")}
  \cup {AbortOutcome, NetFailOutcome}

\* the ways a fetch ends while the App runs: the backend answers with the
\* payload of the operation or with 404, or the fetch is aborted
Outcomes(op) ==
  {Response(200, t) : t \in OkTexts(op)}
  \cup {Response(404, "not found"), AbortOutcome}

\* ------------------------------------------------------------------------
\* State
\* ------------------------------------------------------------------------
VARIABLES
  hostId,       \* window.Telegram.WebApp.initDataUnsafe.user.id as a string
  storage,      \* localStorage["telegram_user_id"]
  mounted,      \* the mount effects have run
  loading, telegramId, habits, friends, error, panel, selected, stats,
  calendar, statsCalendar, month, touchStartX,
                \* the useState cells of App (linkCode and newHabit are
                \* read when a button is clicked; pulseId only picks a
                \* CSS class)
  calls,        \* the handlers in flight, each awaiting one request()
  clicks,       \* handlers calling the api that the user has started
  unhandled,    \* message of the last rejection no handler caught
  calLog,       \* the calendar load started last and the calendar response
                \* that arrived last (a record of the order of events; the
                \* App keeps no such thing)
  req,          \* a direct call of an api operation and its promise
  monthStr,     \* the month string handed to the builders
  data,         \* the CalendarResult (or null) handed to the builders
  cells,        \* what buildCalendarGrid returned
  bars,         \* what buildMiniBars returned
  built         \* which builders have run

calVars == <<monthStr, data, cells, bars, built>>
envVars == <<hostId, mounted>>
formVars == <<touchStartX, month>>
dataVars == <<habits, friends, stats, calendar, statsCalendar>>
uiVars == <<mounted, loading, telegramId, habits, friends, error, panel,
            selected, stats, calendar, statsCalendar, month, touchStartX, calls,
            clicks, unhandled, calLog>>
appVars == <<hostId, storage, uiVars, req>>
vars == <<appVars, calVars>>

\* const panels
panels == <<"home", "habits", "friends", "stats", "calendar", "create">>

Idle == [kind |-> "idle"]
NoLoads == [issued |-> Null, arrived |-> Null]
NoError == ""

\* the builders' inputs while the App runs
CalIdle ==
  /\ monthStr = MonthA /\ data = Null /\ cells = <<>> /\ bars = <<>> /\ built = {}

\* the App before its first render
UiIdle ==
  /\ mounted = FALSE
  /\ loading = TRUE
  /\ habits = [list |-> <<>>]
  /\ friends = [list |-> <<>>]
  /\ error = ""
  /\ panel = "home"
  /\ selected = Null
  /\ stats = Null
  /\ calendar = Null
  /\ statsCalendar = Null
  /\ month = MonthA
  /\ touchStartX = Null
  /\ calls = [i \in Slots |-> Idle]
  /\ clicks = 0
  /\ unhandled = NoError
  /\ calLog = NoLoads

\* App after its useState initialisers: telegramId is api.getTelegramId() || "",
\* in a Telegram host that provides the user id or in a browser without one
Init ==
  /\ hostId \in {NoToken, HostToken}
  /\ LET g == getTelegramId(hostId, NoToken)
     IN  storage = g.storage /\ telegramId = g.tg
  /\ UiIdle
  /\ req = Idle
  /\ CalIdle

\* ------------------------------------------------------------------------
\* App.jsx: what is on screen
\* ------------------------------------------------------------------------
\* const isLinked = !!telegramId
isLinked == telegramId # NoToken

\* the three returns of the render function
LoadingScreen == mounted /\ loading
LinkScreen == mounted /\ ~loading /\ ~isLinked
MainScreen == mounted /\ ~loading /\ isLinked

Range(s) == {s[k] : k \in 1..Len(s)}

\* err.message || fallback
ErrMessage(err, fallback) == IF err.message # "" THEN err.message ELSE fallback

\* ------------------------------------------------------------------------
\* Handlers in flight
\* ------------------------------------------------------------------------
FreeSlots == {i \in Slots : calls[i] = Idle}
FirstFree == CHOOSE i \in FreeSlots : \A j \in FreeSlots : i <= j

\* a handler of the given kind at its await of api operation a; habit and mon
\* are the values its closure holds, own the result of listHabits
NewCall(kind, a, habit, mon, own, store) ==
  LET r == RequestStart(a.path, a.options, hostId, store)
  IN  [call |-> r.call @@ [kind |-> kind, op |-> a.op, habit |-> habit,
                           month |-> mon, own |-> own],
       storage |-> r.storage]

\* a handler starts and reaches its first await
Start(kind, a, habit, mon, store) ==
  /\ FreeSlots # {}
  /\ LET nc == NewCall(kind, a, habit, mon, Null, store)
     IN  /\ calls' = [calls EXCEPT ![FirstFree] = nc.call]
         /\ storage' = nc.storage

\* the user starts a handler that calls the api
UserStart(kind, a, habit, mon, store) ==
  /\ clicks < MaxClicks
  /\ clicks' = clicks + 1
  /\ Start(kind, a, habit, mon, store)

\* the handler in slot i goes on to its next await
Continue(i, a, own) ==
  LET c == calls[i]
      nc == NewCall(c.kind, a, c.habit, c.month, own, storage)
  IN  /\ calls' = [calls EXCEPT ![i] = nc.call]
      /\ storage' = nc.storage
      /\ UNCHANGED clicks

\* the handler in slot i returns or rejects
Finish(i) ==
  /\ calls' = [calls EXCEPT ![i] = Idle]
  /\ UNCHANGED <<storage, clicks>>

Awaiting(i, op) == calls[i] # Idle /\ calls[i].op = op

\* ------------------------------------------------------------------------
\* request(): the retry
\* ------------------------------------------------------------------------
fixedVars == <<hostId, req, calVars, calLog>>

\* a calendar load for habit h starts in the first free slot
LoadIssued(h) == [calLog EXCEPT !.issued = [slot |-> FirstFree, habit |-> h]]

\* the response r of the calendar load in slot i arrives
LoadArrived(i, r) ==
  [calLog EXCEPT !.arrived =
     [ok |-> r.kind = "return",
      value |-> IF r.kind = "return" THEN r.value ELSE Null,
      habit |-> calls[i].habit,
      latest |-> calLog.issued.slot = i]]

\* the first fetch is aborted by the 25 s timer: doFetch() once more
RetryAfterAbort ==
  \E i \in Slots :
    /\ calls[i] # Idle
    /\ RequestAfter(calls[i], AbortOutcome).kind = "retry"
    /\ calls' = [calls EXCEPT ![i] = doFetch([calls[i] EXCEPT !.got = Append(@, AbortOutcome)])]
    /\ UNCHANGED <<fixedVars, storage, mounted, loading, telegramId, dataVars,
                   error, panel, selected, formVars, clicks, unhandled>>

\* a fetch of the handler in slot i ends in o, and request() returns or throws
Settles(i, o) == RequestAfter(calls[i], o).kind # "retry"

\* ------------------------------------------------------------------------
\* Effects and loadAll
\* ------------------------------------------------------------------------
\* the two useEffect bodies after the first render
Mount ==
  /\ ~mounted
  /\ mounted' = TRUE
  /\ telegramId' = IF hostId # NoToken THEN hostId ELSE telegramId
  /\ LET store1 == IF hostId # NoToken THEN setTelegramId(hostId) ELSE storage
     IN  IF ~isLinked
           THEN /\ loading' = FALSE
                /\ storage' = store1
                /\ UNCHANGED calls
           ELSE /\ loading' = TRUE
                /\ Start("loadAll", ApiListHabits, Null, <<>>, store1)
  /\ UNCHANGED <<fixedVars, dataVars, error, panel, selected, formVars, clicks,
                 unhandled>>

\* the buttons that call loadAll: retry on the loading screen (shown with an
\* error), refresh in the top bar
ClickLoadAll ==
  /\ (LoadingScreen /\ error # "") \/ MainScreen
  /\ loading' = TRUE
  /\ UserStart("loadAll", ApiListHabits, Null, <<>>, storage)
  /\ UNCHANGED <<fixedVars, mounted, telegramId, dataVars, error, panel,
                 selected, formVars, unhandled>>

\* the statement after `await loadAll()` in the caller
AfterLoadAll(kind, p) == IF kind = "onCreateHabit" THEN "habits" ELSE p

\* variant: loadAll calls setHabits as soon as api.listHabits() has returned
AfterListHabits_SetsHabits ==
  \E i \in Slots :
    /\ Awaiting(i, "listHabits")
    /\ \E o \in Outcomes("listHabits") :
         LET c == calls[i]
             r == RequestAfter(c, o)
         IN  /\ Settles(i, o)
             /\ IF r.kind = "return"
                  THEN /\ Continue(i, ApiListFriendHabits, r.value)
                       /\ habits' = r.value
                       /\ UNCHANGED <<loading, error, panel>>
                  ELSE /\ error' = ErrMessage(r.error, "Cannot connect to the server")
                       /\ loading' = FALSE
                       /\ panel' = AfterLoadAll(c.kind, panel)
                       /\ Finish(i)
                       /\ UNCHANGED habits
    /\ UNCHANGED <<fixedVars, mounted, telegramId, friends, stats, calendar,
                   statsCalendar, selected, formVars, unhandled>>

\* loadAll after api.listHabits(): go on to api.listFriendHabits(), or catch
\* and finally; then the caller's next statement
AfterListHabits ==
  \E i \in Slots :
    /\ Awaiting(i, "listHabits")
    /\ \E o \in Outcomes("listHabits") :
         LET c == calls[i]
             r == RequestAfter(c, o)
         IN  /\ Settles(i, o)
             /\ IF r.kind = "return"
                  THEN /\ Continue(i, ApiListFriendHabits, r.value)
                       /\ UNCHANGED <<loading, error, panel>>
                  ELSE /\ error' = ErrMessage(r.error, "Cannot connect to the server")
                       /\ loading' = FALSE
                       /\ panel' = AfterLoadAll(c.kind, panel)
                       /\ Finish(i)
    /\ UNCHANGED <<fixedVars, mounted, telegramId, dataVars, selected, formVars,
                   unhandled>>

\* loadAll after api.listFriendHabits(): setHabits, setFriends, setError(""),
\* or catch; finally setLoading(false); then the caller's next statement
AfterListFriendHabits ==
  \E i \in Slots :
    /\ Awaiting(i, "listFriendHabits")
    /\ \E o \in Outcomes("listFriendHabits") :
         LET c == calls[i]
             r == RequestAfter(c, o)
         IN  /\ Settles(i, o)
             /\ IF r.kind = "return"
                  THEN /\ habits' = c.own
                       /\ friends' = r.value
                       /\ error' = ""
                  ELSE /\ error' = ErrMessage(r.error, "Cannot connect to the server")
                       /\ UNCHANGED <<habits, friends>>
             /\ loading' = FALSE
             /\ panel' = AfterLoadAll(c.kind, panel)
             /\ Finish(i)
    /\ UNCHANGED <<fixedVars, mounted, telegramId, stats, calendar,
                   statsCalendar, selected, formVars, unhandled>>

\* ------------------------------------------------------------------------
\* The link screen
\* ------------------------------------------------------------------------
\* onChange of the user_id field: setTelegramId; isLinked turns true and the
\* [isLinked] effect calls loadAll
TypeTelegramId ==
  /\ LinkScreen
  /\ telegramId' = TypedToken
  /\ loading' = TRUE
  /\ UserStart("loadAll", ApiListHabits, Null, <<>>, storage)
  /\ UNCHANGED <<fixedVars, mounted, dataVars, error, panel, selected, formVars,
                 unhandled>>

\* onLinkById on the link screen, where telegramId is empty
onLinkById ==
  /\ LinkScreen
  /\ error' = ""
  /\ UNCHANGED <<fixedVars, storage, mounted, loading, telegramId, dataVars,
                 panel, selected, formVars, calls, clicks, unhandled>>

onLinkByCode ==
  /\ LinkScreen
  /\ error' = ""
  /\ UserStart("onLinkByCode", ApiLinkResolve(TypedCode), Null, <<>>, storage)
  /\ UNCHANGED <<fixedVars, mounted, loading, telegramId, dataVars, panel,
                 selected, formVars, unhandled>>

\* String(data.telegram_user_id)
LinkedToken(value) ==
  IF "telegram_user_id" \in DOMAIN value THEN NumToStr(value.telegram_user_id)
  ELSE <<"undefined">>

\* onLinkByCode after api.linkResolve(): store the id and call loadAll; when
\* isLinked turns true the [isLinked] effect calls loadAll once more
AfterLinkResolve ==
  \E i \in Slots :
    /\ Awaiting(i, "linkResolve")
    /\ \E o \in Outcomes("linkResolve") :
         LET c == calls[i]
             r == RequestAfter(c, o)
         IN  /\ Settles(i, o)
             /\ IF r.kind = "throw"
                  THEN /\ error' = ErrMessage(r.error, "Wrong code")
                       /\ Finish(i)
                       /\ UNCHANGED <<telegramId, loading>>
                ELSE IF r.value = Null
                  THEN /\ error' = "Cannot read properties of null"
                       /\ Finish(i)
                       /\ UNCHANGED <<telegramId, loading>>
                ELSE
                  LET tg == LinkedToken(r.value)
                      nc1 == NewCall(c.kind, ApiListHabits, Null, <<>>, Null,
                                     setTelegramId(tg))
                      calls1 == [calls EXCEPT ![i] = nc1.call]
                      free == {j \in Slots : calls1[j] = Idle}
                      j == CHOOSE k \in free : \A l \in free : k <= l
                      nc2 == NewCall("loadAll", ApiListHabits, Null, <<>>, Null,
                                     nc1.storage)
                  IN  /\ telegramId' = tg
                      /\ loading' = TRUE
                      /\ UNCHANGED <<error, clicks>>
                      /\ IF isLinked
                           THEN /\ calls' = calls1
                                /\ storage' = nc1.storage
                           ELSE /\ free # {}
                                /\ calls' = [calls1 EXCEPT ![j] = nc2.call]
                                /\ storage' = nc2.storage
    /\ UNCHANGED <<fixedVars, mounted, dataVars, panel, selected, formVars,
                   unhandled>>

\* ------------------------------------------------------------------------
\* The main screen: dock, swipes, forms
\* ------------------------------------------------------------------------
\* a dock button: setPanel(t.key)
DockTo(p) ==
  /\ MainScreen
  /\ panel' = p
  /\ UNCHANGED <<fixedVars, storage, mounted, loading, telegramId, dataVars,
                 error, selected, formVars, calls, clicks, unhandled>>

DockClick == \E p \in Range(panels) : DockTo(p)

onTouchStart ==
  /\ MainScreen
  /\ touchStartX' = [x |-> 100]
  /\ UNCHANGED <<fixedVars, storage, mounted, loading, telegramId, dataVars,
                 error, panel, selected, month, calls, clicks, unhandled>>

Abs(n) == IF n < 0 THEN 0 - n ELSE n

\* the panel a swipe of delta pixels leads to
SwipeTarget(p, delta) ==
  LET idx == CHOOSE k \in 1..Len(panels) : panels[k] = p
  IN  IF delta < 0 /\ idx < Len(panels) THEN panels[idx + 1]
      ELSE IF delta > 0 /\ idx > 1 THEN panels[idx - 1]
      ELSE p

onTouchEnd ==
  \E delta \in TouchDeltas :
    /\ MainScreen
    /\ panel' = IF touchStartX = Null \/ Abs(delta) < 60 THEN panel
                ELSE SwipeTarget(panel, delta)
    /\ UNCHANGED <<fixedVars, storage, mounted, loading, telegramId, dataVars,
                   error, selected, formVars, calls, clicks, unhandled>>

\* onChange of the month input of the stats and calendar panels
SetMonth ==
  \E m \in {MonthA, MonthB} :
    /\ MainScreen
    /\ selected # Null
    /\ (panel = "stats" /\ stats # Null) \/ panel = "calendar"
    /\ month' = m
    /\ UNCHANGED <<fixedVars, storage, mounted, loading, telegramId, dataVars,
                   error, panel, selected, touchStartX, calls, clicks, unhandled>>

\* onCreateHabit with the name field empty or filled in
onCreateHabit ==
  \E name \in {"", TypedName} :
    /\ MainScreen
    /\ panel = "create"
    /\ IF name = ""
         THEN /\ error' = "Enter the habit name"
              /\ UNCHANGED <<storage, calls, clicks>>
         ELSE /\ error' = ""
              /\ UserStart("onCreateHabit", ApiCreateHabit(name), Null, <<>>, storage)
    /\ UNCHANGED <<fixedVars, mounted, loading, telegramId, dataVars, panel,
                   selected, formVars, unhandled>>

\* onCreateHabit after api.createHabit(): reset the form and call loadAll
AfterCreateHabit ==
  \E i \in Slots :
    /\ Awaiting(i, "createHabit")
    /\ \E o \in Outcomes("createHabit") :
         LET c == calls[i]
             r == RequestAfter(c, o)
         IN  /\ Settles(i, o)
             /\ IF r.kind = "throw"
                  THEN /\ error' = ErrMessage(r.error, "Cannot create the habit")
                       /\ Finish(i)
                       /\ UNCHANGED loading
                  ELSE /\ loading' = TRUE
                       /\ Continue(i, ApiListHabits, Null)
                       /\ UNCHANGED error
    /\ UNCHANGED <<fixedVars, mounted, telegramId, dataVars, panel, selected,
                   formVars, unhandled>>

\* ------------------------------------------------------------------------
\* The main screen: habit buttons
\* ------------------------------------------------------------------------
OwnHabitShown(h) == panel \in {"home", "habits"} /\ h \in Range(habits.list)

onCheckin ==
  \E h \in {Habit1, Habit2} :
    /\ MainScreen
    /\ OwnHabitShown(h)
    /\ UserStart("onCheckin", ApiCheckin(h.id), Null, <<>>, storage)
    /\ UNCHANGED <<fixedVars, mounted, loading, telegramId, dataVars, error,
                   panel, selected, formVars, unhandled>>

onSkip ==
  \E h \in {Habit1, Habit2} :
    /\ MainScreen
    /\ OwnHabitShown(h)
    /\ UserStart("onSkip", ApiSkip(h.id), Null, <<>>, storage)
    /\ UNCHANGED <<fixedVars, mounted, loading, telegramId, dataVars, error,
                   panel, selected, formVars, unhandled>>

onDelete ==
  \E h \in {Habit1, Habit2} :
    /\ MainScreen
    /\ panel = "habits" /\ h \in Range(habits.list)
    /\ UserStart("onDelete", ApiDeleteHabit(h.id), Null, <<>>, storage)
    /\ UNCHANGED <<fixedVars, mounted, loading, telegramId, dataVars, error,
                   panel, selected, formVars, unhandled>>

\* onCheckin, onSkip, onDelete after their api call: there is no catch, a
\* failure rejects the handler's promise; otherwise loadAll
AfterMutation(op) ==
  \E i \in Slots :
    /\ Awaiting(i, op)
    /\ \E o \in Outcomes(op) :
         LET c == calls[i]
             r == RequestAfter(c, o)
         IN  /\ Settles(i, o)
             /\ IF r.kind = "throw"
                  THEN /\ unhandled' = r.error.message
                       /\ Finish(i)
                       /\ UNCHANGED loading
                  ELSE /\ loading' = TRUE
                       /\ Continue(i, ApiListHabits, Null)
                       /\ UNCHANGED unhandled
    /\ UNCHANGED <<fixedVars, mounted, telegramId, dataVars, error, panel,
                   selected, formVars>>

AfterCheckin == AfterMutation("checkin")
AfterSkip == AfterMutation("skip")
AfterDelete == AfterMutation("deleteHabit")

\* the habits whose statistics and calendar buttons are on screen
HabitShown(h) ==
  \/ panel = "habits" /\ h \in Range(habits.list)
  \/ panel = "friends" /\ h \in Range(friends.list)

\* variant: openStats without setSelected(habit)
openStats_NoSelect ==
  \E h \in {Habit1, Habit2} :
    /\ MainScreen
    /\ HabitShown(h)
    /\ UserStart("openStats", ApiHabitStats(h.id), h, month, storage)
    /\ UNCHANGED <<fixedVars, mounted, loading, telegramId, dataVars, error,
                   panel, selected, formVars, unhandled>>

openStats ==
  \E h \in {Habit1, Habit2} :
    /\ MainScreen
    /\ HabitShown(h)
    /\ selected' = h
    /\ UserStart("openStats", ApiHabitStats(h.id), h, month, storage)
    /\ UNCHANGED <<fixedVars, mounted, loading, telegramId, dataVars, error,
                   panel, formVars, unhandled>>

\* openStats after api.habitStats(): setStats, then api.habitCalendar()
AfterHabitStats ==
  \E i \in Slots :
    /\ Awaiting(i, "habitStats")
    /\ \E o \in Outcomes("habitStats") :
         LET c == calls[i]
             r == RequestAfter(c, o)
         IN  /\ Settles(i, o)
             /\ IF r.kind = "throw"
                  THEN /\ unhandled' = r.error.message
                       /\ Finish(i)
                       /\ UNCHANGED stats
                  ELSE /\ stats' = r.value
                       /\ Continue(i, ApiHabitCalendar(c.habit.id, c.month), Null)
                       /\ UNCHANGED unhandled
    /\ UNCHANGED <<fixedVars, mounted, loading, telegramId, habits, friends,
                   calendar, statsCalendar, error, panel, selected, formVars>>

\* openStats after api.habitCalendar(): setStatsCalendar, setPanel("stats")
AfterStatsCalendar ==
  \E i \in Slots :
    /\ Awaiting(i, "habitCalendar") /\ calls[i].kind = "openStats"
    /\ \E o \in Outcomes("habitCalendar") :
         LET c == calls[i]
             r == RequestAfter(c, o)
         IN  /\ Settles(i, o)
             /\ IF r.kind = "throw"
                  THEN /\ unhandled' = r.error.message
                       /\ UNCHANGED <<statsCalendar, panel>>
                  ELSE /\ statsCalendar' = r.value
                       /\ panel' = "stats"
                       /\ UNCHANGED unhandled
             /\ Finish(i)
    /\ UNCHANGED <<fixedVars, mounted, loading, telegramId, habits, friends,
                   stats, calendar, error, selected, formVars>>

openCalendar ==
  \E h \in {Habit1, Habit2} :
    /\ MainScreen
    /\ HabitShown(h)
    /\ selected' = h
    /\ UserStart("openCalendar", ApiHabitCalendar(h.id, month), h, month, storage)
    /\ calLog' = LoadIssued(h)
    /\ UNCHANGED <<hostId, req, calVars, mounted, loading, telegramId, dataVars, error,
                   panel, formVars, unhandled>>

\* variant: openCalendar drops a response when a later calendar load has
\* been started
AfterOpenCalendar_LatestOnly ==
  \E i \in Slots :
    /\ Awaiting(i, "habitCalendar") /\ calls[i].kind = "openCalendar"
    /\ \E o \in Outcomes("habitCalendar") :
         LET c == calls[i]
             r == RequestAfter(c, o)
         IN  /\ Settles(i, o)
             /\ IF r.kind = "throw"
                  THEN /\ unhandled' = r.error.message
                       /\ UNCHANGED <<calendar, panel>>
                  ELSE /\ calendar' = IF calLog.issued.slot = i THEN r.value ELSE calendar
                       /\ panel' = "calendar"
                       /\ UNCHANGED unhandled
             /\ calLog' = LoadArrived(i, r)
             /\ Finish(i)
    /\ UNCHANGED <<hostId, req, calVars, mounted, loading, telegramId, habits, friends,
                   stats, statsCalendar, error, selected, formVars>>

\* openCalendar after api.habitCalendar(): setCalendar, setPanel("calendar")
AfterOpenCalendar ==
  \E i \in Slots :
    /\ Awaiting(i, "habitCalendar") /\ calls[i].kind = "openCalendar"
    /\ \E o \in Outcomes("habitCalendar") :
         LET c == calls[i]
             r == RequestAfter(c, o)
         IN  /\ Settles(i, o)
             /\ IF r.kind = "throw"
                  THEN /\ unhandled' = r.error.message
                       /\ UNCHANGED <<calendar, panel>>
                  ELSE /\ calendar' = r.value
                       /\ panel' = "calendar"
                       /\ UNCHANGED unhandled
             /\ calLog' = LoadArrived(i, r)
             /\ Finish(i)
    /\ UNCHANGED <<hostId, req, calVars, mounted, loading, telegramId, habits, friends,
                   stats, statsCalendar, error, selected, formVars>>

reloadCalendar ==
  /\ MainScreen
  /\ panel = "calendar"
  /\ selected # Null
  /\ UserStart("reloadCalendar", ApiHabitCalendar(selected.id, month), selected, month, storage)
  /\ calLog' = LoadIssued(selected)
  /\ UNCHANGED <<hostId, req, calVars, mounted, loading, telegramId, dataVars, error,
                 panel, selected, formVars, unhandled>>

\* reloadCalendar after api.habitCalendar(): setCalendar
AfterReloadCalendar ==
  \E i \in Slots :
    /\ Awaiting(i, "habitCalendar") /\ calls[i].kind = "reloadCalendar"
    /\ \E o \in Outcomes("habitCalendar") :
         LET c == calls[i]
             r == RequestAfter(c, o)
         IN  /\ Settles(i, o)
             /\ IF r.kind = "throw"
                  THEN /\ unhandled' = r.error.message
                       /\ UNCHANGED calendar
                  ELSE /\ calendar' = r.value
                       /\ UNCHANGED unhandled
             /\ calLog' = LoadArrived(i, r)
             /\ Finish(i)
    /\ UNCHANGED <<hostId, req, calVars, mounted, loading, telegramId, habits, friends,
                   stats, statsCalendar, error, panel, selected, formVars>>

reloadStatsCalendar ==
  /\ MainScreen
  /\ panel = "stats"
  /\ selected # Null /\ stats # Null
  /\ UserStart("reloadStatsCalendar", ApiHabitCalendar(selected.id, month), selected, month, storage)
  /\ UNCHANGED <<fixedVars, mounted, loading, telegramId, dataVars, error,
                 panel, selected, formVars, unhandled>>

\* reloadStatsCalendar after api.habitCalendar(): setStatsCalendar
AfterReloadStatsCalendar ==
  \E i \in Slots :
    /\ Awaiting(i, "habitCalendar") /\ calls[i].kind = "reloadStatsCalendar"
    /\ \E o \in Outcomes("habitCalendar") :
         LET c == calls[i]
             r == RequestAfter(c, o)
         IN  /\ Settles(i, o)
             /\ IF r.kind = "throw"
                  THEN /\ unhandled' = r.error.message
                       /\ UNCHANGED statsCalendar
                  ELSE /\ statsCalendar' = r.value
                       /\ UNCHANGED unhandled
             /\ Finish(i)
    /\ UNCHANGED <<fixedVars, mounted, loading, telegramId, habits, friends,
                   stats, calendar, error, panel, selected, formVars>>

Next ==
  \/ Mount \/ ClickLoadAll \/ AfterListHabits \/ AfterListFriendHabits
  \/ RetryAfterAbort
  \/ TypeTelegramId \/ onLinkById \/ onLinkByCode \/ AfterLinkResolve
  \/ DockClick \/ onTouchStart \/ onTouchEnd \/ SetMonth
  \/ onCreateHabit \/ AfterCreateHabit
  \/ onCheckin \/ onSkip \/ onDelete \/ AfterCheckin \/ AfterSkip \/ AfterDelete
  \/ openStats \/ AfterHabitStats \/ AfterStatsCalendar
  \/ openCalendar \/ AfterOpenCalendar
  \/ reloadCalendar \/ AfterReloadCalendar
  \/ reloadStatsCalendar \/ AfterReloadStatsCalendar

Spec == Init /\ [][Next]_vars

\* ------------------------------------------------------------------------
\* The api operations called directly
\* ------------------------------------------------------------------------
Pending == [kind |-> "pending"]

\* the calls of the nine api operations that are examined
ApiCalls ==
  {ApiLinkResolve(TypedCode), ApiListHabits, ApiListFriendHabits,
   ApiCreateHabit(TypedName)}
  \cup {ApiHabitStats(h.id) : h \in {Habit1, Habit2}}
  \cup {ApiHabitCalendar(h.id, m) : h \in {Habit1, Habit2}, m \in {MonthA, MonthB}}
  \cup {ApiCheckin(Habit1.id), ApiSkip(Habit2.id), ApiDeleteHabit(Habit1.id)}

\* a browser with or without a host-provided id and a stored token, and no
\* api call made yet
InitReq ==
  /\ hostId \in {NoToken, HostToken}
  /\ storage \in StoredTokens \cup {NoToken}
  /\ telegramId = NoToken
  /\ UiIdle
  /\ req = Idle
  /\ CalIdle

\* an api operation is called: request() runs up to its first await; host0
\* and store0 keep the host id and the stored token found at the call
ApiCall ==
  \E a \in ApiCalls :
    /\ IF req = Idle THEN TRUE ELSE req.result # Pending
    /\ LET r == RequestStart(a.path, a.options, hostId, storage)
       IN  /\ req' = r.call @@ [op |-> a.op, path |-> a.path, host0 |-> hostId,
                                store0 |-> storage, result |-> Pending]
           /\ storage' = r.storage
    /\ UNCHANGED <<hostId, telegramId, uiVars, calVars>>

\* a fetch ends and request() calls doFetch() once more (the first fetch
\* was aborted by the 25 s timer)
ApiRetry ==
  /\ IF req = Idle THEN FALSE ELSE req.result = Pending
  /\ \E o \in AllOutcomes(req.op) :
       /\ RequestAfter(req, o).kind = "retry"
       /\ req' = doFetch([req EXCEPT !.got = Append(@, o)])
  /\ UNCHANGED <<hostId, storage, telegramId, uiVars, calVars>>

\* a fetch ends and request() returns or throws: the promise settles
ApiSettle ==
  /\ IF req = Idle THEN FALSE ELSE req.result = Pending
  /\ \E o \in AllOutcomes(req.op) :
       LET r == RequestAfter(req, o)
       IN  /\ r.kind # "retry"
           /\ req' = [req EXCEPT !.got = Append(@, o), !.result = r]
  /\ UNCHANGED <<hostId, storage, telegramId, uiVars, calVars>>

\* api.setTelegramId(id) and api.clearTelegramId(), at any time
StoreTelegramId ==
  \E id \in StoredTokens :
    /\ storage' = setTelegramId(id)
    /\ UNCHANGED <<hostId, req, telegramId, uiVars, calVars>>

ClearTelegramId ==
  /\ storage' = clearTelegramId
  /\ UNCHANGED <<hostId, req, telegramId, uiVars, calVars>>

NextReq == ApiCall \/ ApiRetry \/ ApiSettle \/ StoreTelegramId \/ ClearTelegramId

SpecReq == InitReq /\ [][NextReq]_vars

\* ------------------------------------------------------------------------
\* Calendar loads on the main screen
\* ------------------------------------------------------------------------
\* the App in a Telegram host after loadAll has filled both lists, on the
\* habits panel, with no habit selected yet or with the habit of an
\* openStats whose api.habitStats() was answered 404; clicks counts the
\* handlers started from here on
InitLoads ==
  /\ hostId = HostToken /\ storage = HostToken /\ telegramId = HostToken
  /\ mounted = TRUE
  /\ loading = FALSE
  /\ habits = [list |-> <<Habit1, Habit2>>]
  /\ friends = [list |-> <<Habit1, Habit2>>]
  /\ error = ""
  /\ panel = "habits"
  /\ selected \in {Null, Habit1, Habit2}
  /\ unhandled = (IF selected = Null THEN NoError ELSE "not found")
  /\ stats = Null
  /\ calendar = Null
  /\ statsCalendar = Null
  /\ month = MonthA
  /\ touchStartX = Null
  /\ calls = [i \in Slots |-> Idle]
  /\ clicks = 0
  /\ calLog = NoLoads
  /\ req = Idle
  /\ CalIdle

\* the dock, the month input and the two calendar loads
NextLoads ==
  \/ DockClick \/ SetMonth \/ RetryAfterAbort
  \/ openCalendar \/ AfterOpenCalendar
  \/ reloadCalendar \/ AfterReloadCalendar

SpecLoads == InitLoads /\ [][NextLoads]_vars

\* ------------------------------------------------------------------------
\* Inputs of the builders
\* ------------------------------------------------------------------------
\* years of the month strings examined: a two-digit year, century years
\* with and without a leap day, a leap year and its predecessor
CalYears == {50, 1900, 2000, 2023, 2024, 2100}

\* the YYYY-MM string of month m of year y
MonthStrOf(y, m) ==
  PadStart(NumToStr(y), 4, "0") \o <<"-">> \o PadStart(NumToStr(m), 2, "0")

MonthStrs == {MonthStrOf(y, m) : y \in CalYears, m \in 1..12}

\* date strings a CalendarResult may hold for month ms: the 1st and the
\* 28th as ISO dates, and the 1st written without zero padding
DateCands(ms) ==
  {ms \o <<"-", "0", "1">>, ms \o <<"-", "1">>, ms \o <<"-", "2", "8">>}

CalendarResults(ms) ==
  {Null}
  \cup {[marked |-> M, skipped |-> S] : M \in SUBSET DateCands(ms), S \in SUBSET DateCands(ms)}
  \cup {[marked |-> M] : M \in SUBSET DateCands(ms)}
  \cup {[skipped |-> S] : S \in SUBSET DateCands(ms)}

InitCal ==
  /\ monthStr \in MonthStrs
  /\ data \in CalendarResults(monthStr)
  /\ cells = <<>>
  /\ bars = <<>>
  /\ built = {}
  /\ hostId = NoToken /\ storage = NoToken /\ telegramId = NoToken
  /\ UiIdle
  /\ req = Idle

BuildCalendarGrid ==
  /\ "grid" \notin built
  /\ cells' = buildCalendarGrid(monthStr, data)
  /\ built' = built \cup {"grid"}
  /\ UNCHANGED <<monthStr, data, bars, appVars>>

BuildMiniBars ==
  /\ "bars" \notin built
  /\ bars' = buildMiniBars(monthStr, data)
  /\ built' = built \cup {"bars"}
  /\ UNCHANGED <<monthStr, data, cells, appVars>>

NextCal == BuildCalendarGrid \/ BuildMiniBars

SpecCal == InitCal /\ [][NextCal]_vars

\* ------------------------------------------------------------------------
\* Calendar reference values (for the properties below)
\* ------------------------------------------------------------------------
\* the year and month a month string of MonthStrs stands for
YearOf(ms) == CHOOSE y \in CalYears : \E m \in 1..12 : ms = MonthStrOf(y, m)
MonthOf(ms) == CHOOSE m \in 1..12 : \E y \in CalYears : ms = MonthStrOf(y, m)

IsLeap(y) == (y % 4 = 0 /\ y % 100 # 0) \/ y % 400 = 0

RefDaysInMonth(y, m) ==
  IF m = 2 THEN (IF IsLeap(y) THEN 29 ELSE 28)
  ELSE IF m \in {4, 6, 9, 11} THEN 30 ELSE 31

\* weekday of the first of the month, 0 = Sunday (Gregorian calendar)
RefFirstWeekday(y, m) ==
  LET t == <<0, 3, 2, 5, 0, 3, 5, 1, 4, 6, 2, 4>>
      yy == IF m < 3 THEN y - 1 ELSE y
  IN  (yy + yy \div 4 - yy \div 100 + yy \div 400 + t[m] + 1) % 7

RefBlanks(y, m) == (RefFirstWeekday(y, m) + 6) % 7

\* the ISO date y-m-d, zero padded
RefIso(y, m, d) ==
  <<DigitChars[((y \div 1000) % 10) + 1], DigitChars[((y \div 100) % 10) + 1],
    DigitChars[((y \div 10) % 10) + 1], DigitChars[(y % 10) + 1], "-",
    DigitChars[(m \div 10) + 1], DigitChars[(m % 10) + 1], "-",
    DigitChars[(d \div 10) + 1], DigitChars[(d % 10) + 1]>>

RefStatus(iso, marked, skipped) ==
  IF iso \in skipped THEN "skip"
  ELSE IF iso \in marked THEN "done" ELSE "none"

EmptyCount(cs) == Cardinality({i \in 1..Len(cs) : cs[i].type = "empty"})
DayCells(cs) == {i \in 1..Len(cs) : cs[i].type = "day"}

GridBuilt == "grid" \in built
BarsBuilt == "bars" \in built

\* C6 (as stated): for non-null data the grid is exactly (first_weekday + 6)
\* mod 7 empty cells followed by the day cells 1..days_in_month in order.
C6_GridLayout ==
  (GridBuilt /\ data # Null) =>
    LET y == YearOf(monthStr)
        m == MonthOf(monthStr)
        b == RefBlanks(y, m)
        n == RefDaysInMonth(y, m)
    IN  /\ Len(cells) = b + n
        /\ \A i \in 1..b : cells[i].type = "empty"
        /\ \A d \in 1..n : cells[b + d].type = "day" /\ cells[b + d].day = d

\* the same layout, for months of years 100 and later only
GridLayoutFrom100 == YearOf(monthStr) >= 100 => C6_GridLayout

RefMarked == IF "marked" \in DOMAIN data THEN data.marked ELSE {}
RefSkipped == IF "skipped" \in DOMAIN data THEN data.skipped ELSE {}

C5_NullWitness == GridBuilt /\ data = Null /\ cells = <<>>

\* C7: every day cell of the grid and every entry of the mini bars has
\* status skip when its ISO date is skipped, else done when it is marked,
\* else none.
C7_StatusRule ==
  LET y == YearOf(monthStr)
      m == MonthOf(monthStr)
  IN  /\ (GridBuilt /\ data # Null) =>
            \A i \in DayCells(cells) :
              cells[i].status = RefStatus(RefIso(y, m, cells[i].day), RefMarked, RefSkipped)
      /\ (BarsBuilt /\ data # Null) =>
            \A k \in 1..Len(bars) :
              bars[k].status = RefStatus(RefIso(y, m, bars[k].day), RefMarked, RefSkipped)

\* a day both marked and skipped shows as skip in the grid and in the bars,
\* while the unpadded date string marks nothing
C7_Witness ==
  /\ GridBuilt /\ BarsBuilt /\ data # Null
  /\ \E k \in 1..Len(bars) :
        /\ bars[k].day = 28 /\ bars[k].status = "skip"
        /\ RefIso(YearOf(monthStr), MonthOf(monthStr), 28) \in RefMarked \cap RefSkipped
  /\ \E i \in DayCells(cells) :
        /\ cells[i].day = 28 /\ cells[i].status = "skip"
  /\ \E i \in DayCells(cells) :
        /\ cells[i].day = 1 /\ cells[i].status = "none"
        /\ monthStr \o <<"-", "1">> \in RefMarked

Min(a, b) == IF a < b THEN a ELSE b
Max(a, b) == IF a > b THEN a ELSE b

\* bs is the window of a month of n days: min(14, n) consecutive ascending
\* days from max(n - 13, 1) to n
IsWindow(bs, n) ==
  /\ Len(bs) = Min(14, n)
  /\ \A k \in 1..Len(bs) : bs[k].day = Max(n - 13, 1) + k - 1
  /\ bs[1].day >= 1
  /\ bs[Len(bs)].day = n

\* C8: for non-null data buildMiniBars returns min(14, n) consecutive
\* ascending days from max(n - 13, 1) to n, n the length of the month; the
\* loop does so for every length n from 1 on, a 5-day month giving 1..5.
C8_MiniBarsWindow ==
  /\ (BarsBuilt /\ data # Null) =>
        IsWindow(bars, RefDaysInMonth(YearOf(monthStr), MonthOf(monthStr)))
  /\ \A n \in 1..MaxWindowDays :
        IsWindow(MiniBarsLoop(n, monthStr, RefMarked, RefSkipped), n)
  /\ [k \in 1..5 |-> MiniBarsLoop(5, monthStr, {}, {})[k].day] = <<1, 2, 3, 4, 5>>

\* the bars of a 28-day month: 14 entries, days 15..28
C8_Witness ==
  /\ BarsBuilt /\ data # Null
  /\ Len(bars) = 14 /\ bars[1].day = 15 /\ bars[14].day = 28

\* ------------------------------------------------------------------------
\* Properties of request() and the api operations (under SpecReq)
\* ------------------------------------------------------------------------
Settled == IF req = Idle THEN FALSE ELSE req.result # Pending
\* the outcome of the last fetch of a settled call
Final == req.got[Len(req.got)]

\* C1: a second fetch is sent if and only if the first ended in the timeout
\* abort, with the same url, headers and options; a third is never sent; a
\* response to the retry alone decides the outcome; an abort of the retry or
\* a network failure of either fetch is thrown to the caller.
C1_RetryOnceOnTimeout ==
  req # Idle =>
    /\ Len(req.sent) \in {1, 2}
    /\ Len(req.sent) = 2 <=> (req.got # <<>> /\ req.got[1] = AbortOutcome)
    /\ Len(req.sent) = 2 => req.sent[2] = req.sent[1]
    /\ Settled =>
         /\ Len(req.got) = Len(req.sent)
         /\ Final.type = "response" => req.result = RequestOnResponse(Final)
         /\ Final.type = "abort" =>
              /\ Len(req.got) = 2
              /\ req.result = [kind |-> "throw", error |-> AbortError]
         /\ Final.type = "neterr" =>
              req.result = [kind |-> "throw", error |-> NetworkError]

\* a call whose first fetch timed out and whose retry got a JSON response
C1_Witness ==
  /\ Settled
  /\ Len(req.sent) = 2 /\ req.got[1] = AbortOutcome
  /\ Final.type = "response" /\ Final.status = 200
  /\ req.result.kind = "return" /\ req.result.value # Null

\* C2: a final response with a status outside 200..299 makes the call throw
\* an error whose message is the response text, or "Request failed" when the
\* text is empty; nothing is returned, and a text that is JSON is not parsed.
C2_ErrorStatusThrowsBody ==
  (Settled /\ Final.type = "response"
     /\ (Final.status < 200 \/ Final.status > 299)) =>
    /\ req.result.kind = "throw"
    /\ req.result.error.name = "Error"
    /\ req.result.error.message =
         (IF Final.body = "" THEN "Request failed" ELSE Final.body)

\* a call answered 404 "not found" has thrown the message "not found"
C2_Witness ==
  /\ Settled /\ Final.type = "response"
  /\ Final.status = 404 /\ Final.body = "not found"
  /\ req.result.kind = "throw" /\ req.result.error.message = "not found"

\* C3 (as stated): a final 204 resolves to null and every other final status
\* in 200..299 resolves to the parsed JSON body.
C3_SuccessResolvesParsed ==
  (Settled /\ Final.type = "response"
     /\ Final.status >= 200 /\ Final.status <= 299) =>
    /\ req.result.kind = "return"
    /\ Final.status = 204 => req.result.value = Null
    /\ Final.status # 204 =>
         IsJson(Final.body) /\ req.result.value = JsonTable[Final.body]

\* C3 (amended): a final 204 resolves to null without parsing the body; for
\* every other final status in 200..299 the call resolves to the parsed body
\* when the body is JSON and throws the parser's SyntaxError when it is not.
C3_SuccessParsesUnless204 ==
  (Settled /\ Final.type = "response"
     /\ Final.status >= 200 /\ Final.status <= 299) =>
    IF Final.status = 204
      THEN req.result = [kind |-> "return", value |-> Null]
    ELSE IF Final.body \in DOMAIN JsonTable
      THEN req.result = [kind |-> "return", value |-> JsonTable[Final.body]]
    ELSE req.result.kind = "throw" /\ req.result.error.name = "SyntaxError"

\* a 204 whose empty text is no JSON resolved to null
C3_Witness ==
  /\ Settled /\ Final.type = "response"
  /\ Final.status = 204 /\ Final.body \notin DOMAIN JsonTable
  /\ req.result = [kind |-> "return", value |-> Null]

\* a 201 with a JSON text resolved to the parsed value
C3_ParsedWitness ==
  /\ Settled /\ Final.type = "response" /\ Final.status = 201
  /\ req.result = [kind |-> "return", value |-> [ok |-> TRUE]]

\* decodeURIComponent, the inverse of the percent-encoding
RECURSIVE Decode(_)
Decode(s) ==
  IF s = <<>> THEN <<>>
  ELSE IF Head(s) = "%" /\ Len(s) >= 3
    THEN LET code == <<s[2], s[3]>>
             ch == CASE code = <<"2", "6">> -> "&"
                     [] code = <<"3", "F">> -> "?"
                     [] code = <<"3", "D">> -> "="
                     [] code = <<"2", "5">> -> "%"
                     [] code = <<"2", "0">> -> " "
                     [] OTHER -> "%"
         IN  <<ch>> \o Decode(SubSeq(s, 4, Len(s)))
  ELSE <<Head(s)>> \o Decode(Tail(s))

\* the query string of a url: what follows its first "?"
QueryString(url) ==
  IF Includes(url, "?")
    THEN LET q == CHOOSE k \in 1..Len(url) :
                    url[k] = "?" /\ \A j \in 1..(k - 1) : url[j] # "?"
         IN  SubSeq(url, q + 1, Len(url))
    ELSE <<>>

\* the decoded values a url's query string gives to the parameter key
QueryValues(url, key) ==
  LET parts == Split(QueryString(url), "&")
  IN  {Decode(SubSeq(parts[k], 3, Len(parts[k]))) :
         k \in {j \in 1..Len(parts) :
                  Len(parts[j]) >= 2 /\ parts[j][1] = key /\ parts[j][2] = "="}}

\* the token known when the call started: the host-provided id, else the
\* stored value
TokenAtCall == IF req.host0 # NoToken THEN req.host0 ELSE req.store0

\* C4: when a token is known at the start of an api call, every fetch of the
\* call carries it as the X-Telegram-Id header and as the telegram_user_id
\* query parameter, appended with "&" when the path has a query and with "?"
\* otherwise; when none is known, the request carries neither.
C4_TokenOnEveryFetch ==
  req # Idle =>
    \A k \in 1..Len(req.sent) :
      LET f == req.sent[k]
          base == API_URL \o req.path
      IN  /\ SubSeq(f.url, 1, Len(base)) = base
          /\ f.options = (CHOOSE a \in ApiCalls : a.op = req.op /\ a.path = req.path).options
          /\ IF TokenAtCall # NoToken
               THEN /\ "X-Telegram-Id" \in DOMAIN f.headers
                    /\ f.headers["X-Telegram-Id"] = TokenAtCall
                    /\ QueryValues(f.url, "telegram_user_id") = {TokenAtCall}
                    /\ f.url[Len(base) + 1] = (IF Includes(req.path, "?") THEN "&" ELSE "?")
                    /\ req.op = "habitCalendar" =>
                         \E m \in {MonthA, MonthB} : QueryValues(f.url, "month") = {m}
               ELSE /\ "X-Telegram-Id" \notin DOMAIN f.headers
                    /\ f.url = base
                    /\ QueryValues(f.url, "telegram_user_id") = {}

\* a retried calendar call whose token needs percent-encoding, the stored
\* token having changed since the call started
C4_Witness ==
  /\ req # Idle /\ req.op = "habitCalendar"
  /\ Len(req.sent) = 2
  /\ TokenAtCall = <<"a", "&", "b">>
  /\ storage # TokenAtCall
  /\ req.sent[2].headers["X-Telegram-Id"] = TokenAtCall

\* a call made with no token known
C4_NoTokenWitness ==
  /\ req # Idle /\ TokenAtCall = NoToken /\ req.sent[1].url = API_URL \o req.path

\* ------------------------------------------------------------------------
\* Properties of the App (under Spec)
\* ------------------------------------------------------------------------
\* C9: a failed request of a UI action reaches the UI layer, which sets the
\* displayed error to the failure's message: no handler ends on a failure
\* that nothing caught, leaving error as something else.
C9_FailureSetsError ==
  [][unhandled' # unhandled => error' = unhandled']_vars

\* C10 (as stated): the panel is one of the six values, and it is stats or
\* calendar only when a habit is selected.
C10_PanelNeedsSelected ==
  /\ panel \in Range(panels)
  /\ panel \in {"stats", "calendar"} => selected # Null

PanelIndex(p) == CHOOSE k \in 1..Len(panels) : panels[k] = p

\* a step in which the handler kind, running in some slot, ends
Ends(kind) ==
  \E i \in Slots : calls[i].kind = kind /\ calls'[i] = Idle

\* C10 (amended): the panel is always one of the six values; on the main
\* screen the dock leads to every panel; a swipe leads to the same or an
\* adjacent panel; the panel changes only on the main screen by the dock or a
\* swipe, or when openStats, openCalendar or onCreateHabit ends, to stats,
\* calendar and habits respectively; and openStats and openCalendar end with
\* a habit selected. (The dock and swipes show stats or calendar with no
\* habit selected.)
C10_PanelTransitions ==
  /\ [](panel \in Range(panels))
  /\ [](MainScreen => \A p \in Range(panels) : ENABLED DockTo(p))
  /\ [](\A p \in Range(panels) : \A delta \in TouchDeltas :
           LET t == SwipeTarget(p, delta)
           IN  /\ t \in Range(panels)
               /\ Abs(PanelIndex(t) - PanelIndex(p)) <= 1)
  /\ [][/\ (Ends("openStats") \/ Ends("openCalendar")) => selected' # Null
        /\ panel' # panel =>
             \/ calls' = calls /\ MainScreen
             \/ Ends("openStats") /\ panel' = "stats"
             \/ Ends("openCalendar") /\ panel' = "calendar"
             \/ Ends("onCreateHabit") /\ panel' = "habits"]_vars

\* openStats has ended with the stats panel shown for the selected habit
C10_Witness ==
  /\ panel = "stats" /\ selected # Null
  /\ stats # Null /\ statsCalendar # Null
  /\ \A i \in Slots : calls[i] = Idle

\* the dock or a swipe has led to the calendar panel with no habit selected
C10_NoHabitWitness ==
  /\ MainScreen /\ panel = "calendar" /\ selected = Null

\* ------------------------------------------------------------------------
\* Properties of overlapping calendar loads (under SpecLoads)
\* ------------------------------------------------------------------------
\* the slots in which a calendar load (openCalendar or reloadCalendar) is
\* in flight
LoadSlots == {i \in Slots : calls[i].kind \in {"openCalendar", "reloadCalendar"}}

\* C11: calendar loads are neither coordinated nor cancelled: whenever a
\* calendar response has arrived, calendar holds the payload of the one that
\* arrived last (whether or not its request was the one issued last), and
\* selected holds the habit of the calendar load that was started last; a
\* load whose response is an error leaves calendar as it was.
C11_LastArrivalWins ==
  /\ [](/\ calLog.issued # Null => selected = calLog.issued.habit
        /\ (calLog.arrived # Null /\ calLog.arrived.ok) =>
              calendar = calLog.arrived.value
        /\ (calLog.arrived = Null) => calendar = Null)
  /\ [][(\E i \in LoadSlots : calls'[i] = Idle) =>
          /\ calLog'.arrived # Null
          /\ calLog'.arrived.ok => calendar' = calLog'.arrived.value
          /\ ~calLog'.arrived.ok => calendar' = calendar]_vars

\* two loads were in flight together and both have completed; the response
\* that arrived last belongs to the load issued first, for another habit
\* than the one selected, and its payload is in calendar
C11_Witness ==
  /\ clicks = 2 /\ LoadSlots = {}
  /\ calLog.arrived # Null /\ calLog.arrived.ok /\ ~calLog.arrived.latest
  /\ calendar = calLog.arrived.value
  /\ selected = calLog.issued.habit
  /\ calLog.arrived.habit # selected

\* two calendar loads are in flight at the same time
C11_BothInFlight == Cardinality(LoadSlots) = 2

\* the App reaches the states the calendar loads start from: both lists
\* loaded, and the habit of a failed openStats selected
LoadsStartReached ==
  /\ MainScreen /\ panel = "habits" /\ error = ""
  /\ habits = [list |-> <<Habit1, Habit2>>] /\ friends = habits
  /\ selected = Habit2 /\ unhandled = "not found"
  /\ stats = Null /\ calendar = Null /\ statsCalendar = Null
  /\ month = MonthA /\ touchStartX = Null
  /\ storage = HostToken /\ telegramId = HostToken
  /\ \A i \in Slots : calls[i] = Idle

\* ------------------------------------------------------------------------
\* Properties of loadAll (under Spec)
\* ------------------------------------------------------------------------
\* the api operation a handler is awaiting
OpOf(c) == IF c = Idle THEN "none" ELSE c.op

\* what the backend can serve as a list of habits
ListPayloads == {JsonParse(t) : t \in OkTexts("listHabits")}

\* C12: loadAll replaces habits and friends together, in the step in which
\* its shared-habits request has succeeded, with the results of its two
\* requests, and clears error; the shared-habits request is issued only when
\* the own-habits request of the same loadAll has succeeded; when either
\* request fails, habits and friends stay as they are and error becomes a
\* non-empty message; the step that ends a loadAll sets loading to false; and
\* no other step changes habits or friends.
C12_LoadAllFrame ==
  [][/\ \A i \in Slots :
          (OpOf(calls[i]) = "listHabits" /\ calls'[i] # calls[i]) =>
            \/ /\ OpOf(calls'[i]) = "listHabits"
               /\ Len(calls'[i].sent) = 2
               /\ UNCHANGED <<habits, friends, error, loading>>
            \/ /\ OpOf(calls'[i]) = "listFriendHabits"
               /\ calls'[i].own \in ListPayloads
               /\ calls'[i].kind = calls[i].kind
               /\ UNCHANGED <<habits, friends, error, loading>>
            \/ /\ calls'[i] = Idle
               /\ error' # ""
               /\ loading' = FALSE
               /\ UNCHANGED <<habits, friends>>
     /\ \A i \in Slots :
          (OpOf(calls'[i]) = "listFriendHabits" /\ calls'[i] # calls[i]) =>
            \/ OpOf(calls[i]) = "listHabits"
            \/ OpOf(calls[i]) = "listFriendHabits" /\ calls'[i].own = calls[i].own
     /\ \A i \in Slots :
          (OpOf(calls[i]) = "listFriendHabits" /\ calls'[i] = Idle) =>
            /\ loading' = FALSE
            /\ \/ /\ error' = ""
                  /\ habits' = calls[i].own
                  /\ friends' \in ListPayloads
               \/ /\ error' # ""
                  /\ UNCHANGED <<habits, friends>>
     /\ (habits' # habits \/ friends' # friends) =>
          \E i \in Slots :
            /\ OpOf(calls[i]) = "listFriendHabits" /\ calls'[i] = Idle
            /\ error' = ""]_vars

\* a loadAll has ended with both lists replaced and error cleared
C12_Witness ==
  /\ MainScreen
  /\ habits = [list |-> <<Habit1, Habit2>>] /\ friends \in ListPayloads
  /\ friends.list # <<>>
  /\ error = ""
  /\ \A i \in Slots : calls[i] = Idle

\* the loadAll of the mount effect has ended on a request answered 404: both
\* lists are still empty and the message is shown
C12_FailedWitness ==
  /\ mounted /\ ~loading /\ isLinked
  /\ habits.list = <<>> /\ friends.list = <<>>
  /\ error = "not found"
  /\ clicks = 0
  /\ \A i \in Slots : calls[i] = Idle

====
